---- MODULE Spec2Model ----
(***************************************************************************)
(* A model of the RomM service plugin of Lutris and of the service-game    *)
(* store it reads back from:                                               *)
(*   lutris/database/services.py  ServiceGameCollection                    *)
(*   lutris/services/romm.py      RommGame, RommService                    *)
(*                                                                         *)
(* Three components, each with its own specification:                      *)
(*   SpecStore   the service_games table and the read operations on it     *)
(*   SpecConfig  the host configuration and the login entry point          *)
(*   SpecLoad    one run of RommService.load, statement by statement       *)
(* ServiceGame.save, sql.filtered_query, the dialog, the HTTP request and   *)
(* the base class's login are outside these files: save and the base login  *)
(* are recorded as calls, the others are drawn from their possible outcomes.*)
(***************************************************************************)
EXTENDS Integers, Sequences, FiniteSets, TLC

VARIABLES
    table,          \* service_games: the rows, in storage order
    last,           \* outcome of the last store call made on the current table
    host_url,       \* RommService.host_url
    redirect_uri,   \* RommService.redirect_uri
    config_file,    \* contents of romm/config.json: NoFile or the "host" entry
    ev,             \* what the last configuration/login operation did
    pc,             \* position of load(): idle, map, save, done, raised
    req,            \* what the HTTP request of this load did
    api,            \* outcome of make_api_request
    lib,            \* outcome of get_library
    library,        \* load's local `library`
    idx,            \* position of load's first loop in `library`
    romm_games,     \* load's local `romm_games`
    seen,           \* load's local `seen`
    sidx,           \* position of load's second loop in `romm_games`
    saved,          \* the games save() was called on, in call order
    matched,        \* whether match_games() was called
    result          \* how load ended: what it returned or raised

storeVars == <<table, last>>
configVars == <<host_url, redirect_uri, config_file, ev>>
loadVars == <<pc, req, api, lib, library, idx, romm_games, seen, sidx, saved, matched, result>>
vars == <<storeVars, configVars, loadVars>>

(***************************************************************************)
(* Python values.  A value carries its type, so that values of different   *)
(* types are never equal and truthiness is computed the way Python does.   *)
(* A string is the sequence of its characters.                             *)
(***************************************************************************)
PyNone == [t |-> "none", v |-> 0]
PyInt(n) == [t |-> "int", v |-> n]
PyStr(s) == [t |-> "str", v |-> s]
PyList(s) == [t |-> "list", v |-> s]
PyDict(d) == [t |-> "dict", v |-> d]

\* bool(x): None, 0, "", [] and {} are false.
Truthy(x) ==
    CASE x.t = "none" -> FALSE
      [] x.t = "int" -> x.v # 0
      [] x.t = "str" -> Len(x.v) > 0
      [] x.t = "list" -> Len(x.v) > 0
      [] x.t = "dict" -> DOMAIN x.v # {}

\* x == y on values: the types are compared first.
PyEq(x, y) == x.t = y.t /\ x.v = y.v

NoExc == [type |-> "none", msg |-> "none"]
Exc(type, msg) == [type |-> type, msg |-> msg]

romm == <<"r", "o", "m", "m">>
gog == <<"g", "o", "g">>
foo == <<"f", "o", "o">>
foo2 == <<"f", "o", "o", "2">>
Foo == <<"F", "o", "o">>
Bar == <<"B", "a", "r">>
empty == << >>

(***************************************************************************)
(* The service game store (lutris/database/services.py).                   *)
(***************************************************************************)
MaxRows == 2

\* The rows an insert may write.
Rows ==
    [service : {PyStr(romm), PyStr(gog)},
     appid : {PyInt(0), PyInt(1)},
     slug : {PyStr(foo), PyStr(foo2)},
     name : {PyStr(Foo)}]

\* sql.filtered_query with filters only: the rows that equal the filter's
\* value in every filtered column, in storage order.
filtered_query(tbl, filters) ==
    SelectSeq(tbl, LAMBDA r : \A f \in DOMAIN filters : PyEq(r[f], filters[f]))

\* The dict literal {"service": service, field: value}.
game_filters(service, value, field) ==
    [f \in {"service", field} |-> IF f = field THEN value ELSE service]

Outcome(raised, ret, queried, warned) ==
    [raised |-> raised, ret |-> ret, queried |-> queried, warned |-> warned]

\* get_for_service without its argument check.
get_for_service_noguard(tbl, service) ==
    Outcome(NoExc, PyList(filtered_query(tbl, [f \in {"service"} |-> service])), 1, FALSE)

\* ServiceGameCollection.get_for_service.
get_for_service(tbl, service) ==
    IF ~Truthy(service)
    THEN Outcome(Exc("ValueError", "No service provided"), PyNone, 0, FALSE)
    ELSE Outcome(NoExc, PyList(filtered_query(tbl, [f \in {"service"} |-> service])), 1, FALSE)

\* get_game returning the last match instead of the first.
get_game_last(tbl, service, value, field) ==
    IF ~Truthy(service)
    THEN Outcome(Exc("ValueError", "No service provided"), PyNone, 0, FALSE)
    ELSE IF ~Truthy(value)
    THEN Outcome(Exc("ValueError", "No value provided"), PyNone, 0, FALSE)
    ELSE LET results == filtered_query(tbl, game_filters(service, value, field))
         IN  IF ~(Len(results) > 0)
             THEN Outcome(NoExc, PyNone, 1, FALSE)
             ELSE Outcome(NoExc, [t |-> "row", v |-> results[Len(results)]], 1,
                          Len(results) > 1)

\* ServiceGameCollection.get_game.
get_game(tbl, service, value, field) ==
    IF ~Truthy(service)
    THEN Outcome(Exc("ValueError", "No service provided"), PyNone, 0, FALSE)
    ELSE IF ~Truthy(value)
    THEN Outcome(Exc("ValueError", "No value provided"), PyNone, 0, FALSE)
    ELSE LET results == filtered_query(tbl, game_filters(service, value, field))
         IN  IF ~(Len(results) > 0)
             THEN Outcome(NoExc, PyNone, 1, FALSE)
             ELSE Outcome(NoExc, [t |-> "row", v |-> results[1]], 1,
                          Len(results) > 1)

\* What callers pass.  `field` names a column looked up within the service;
\* "service" itself, which would collapse the filter to one key, is left out.
Services == {PyNone, PyStr(empty), PyStr(romm), PyStr(gog)}
Values == {PyNone, PyStr(empty), PyInt(0), PyInt(1), PyStr(foo)}
Fields == {"appid", "slug"}

NoCall == [op |-> "none"]

InitStore ==
    /\ table = << >>
    /\ last = NoCall

\* A row is written to service_games.
db_insert ==
    /\ Len(table) < MaxRows
    /\ \E r \in Rows : table' = Append(table, r)
    /\ last' = NoCall
    /\ UNCHANGED <<configVars, loadVars>>

GetForService ==
    \E service \in Services :
        /\ last' = [op |-> "get_for_service", service |-> service,
                    out |-> get_for_service(table, service)]
        /\ UNCHANGED <<table, configVars, loadVars>>

GetGame ==
    \E service \in Services, value \in Values, field \in Fields :
        /\ last' = [op |-> "get_game", service |-> service, value |-> value,
                    field |-> field, out |-> get_game(table, service, value, field)]
        /\ UNCHANGED <<table, configVars, loadVars>>

(***************************************************************************)
(* Host configuration and login (lutris/services/romm.py, RommService).    *)
(***************************************************************************)
MaxHostLen == 3

HostChars == {"h", "/"}

\* The strings the user may leave in the dialog's entry.
UserValues == UNION {[1..n -> HostChars] : n \in 0..MaxHostLen}

\* Gtk.ResponseType values a dialog run may end with.
Responses == {"OK", "CANCEL", "DELETE_EVENT"}

scan == <<"/", "s", "c", "a", "n">>
login_next == <<"/", "l", "o", "g", "i", "n", "?", "n", "e", "x", "t", "=">> \o scan

\* s.endswith("/")
endswith_slash(s) == Len(s) > 0 /\ s[Len(s)] = "/"

\* s[:-1]
drop_last(s) == SubSeq(s, 1, Len(s) - 1)

\* The object's fields and the config file, as one value.
ServiceState(h, r, c) == [host_url |-> h, redirect_uri |-> r, config_file |-> c]

\* json.dump({"host": new_host}, config_file): the document the file holds.
config_json(new_host) == PyDict([host |-> PyStr(new_host)])

\* configure without the early return on a dismissed dialog.
configure_always(st, response, user_value) ==
    LET new_host == IF endswith_slash(user_value) THEN drop_last(user_value) ELSE user_value
    IN  ServiceState(PyStr(new_host), PyStr(new_host \o scan), config_json(new_host))

\* RommService.configure, given what the dialog run returned.
configure(st, response, user_value) ==
    IF response # "OK"
    THEN st
    ELSE LET new_host == IF endswith_slash(user_value) THEN drop_last(user_value) ELSE user_value
         IN  ServiceState(PyStr(new_host), PyStr(new_host \o scan), config_json(new_host))

\* RommService.login_url: host_url + "/login?next=/scan".
login_url(h) ==
    IF h.t = "str"
    THEN [raised |-> NoExc, ret |-> PyStr(h.v \o login_next)]
    ELSE [raised |-> Exc("TypeError", "unsupported operand type(s) for +"), ret |-> PyNone]

\* RommService.__init__: the host is read from the config file when it exists.
service_init(c) ==
    IF c.t = "dict"
    THEN ServiceState(c.v.host, PyStr(c.v.host.v \o scan), c)
    ELSE ServiceState(PyNone, PyNone, c)

CurrentState == ServiceState(host_url, redirect_uri, config_file)

SetState(st) ==
    /\ host_url' = st.host_url
    /\ redirect_uri' = st.redirect_uri
    /\ config_file' = st.config_file

InitConfig ==
    /\ host_url = PyNone
    /\ redirect_uri = PyNone
    /\ config_file = PyNone
    /\ ev = [op |-> "init", dialog |-> "not_run"]

\* A new RommService object is constructed (the launcher starts).
Construct ==
    /\ SetState(service_init(config_file))
    /\ ev' = [op |-> "init", dialog |-> "not_run"]
    /\ UNCHANGED <<storeVars, loadVars>>

Configure ==
    \E response \in Responses, user_value \in UserValues :
        /\ SetState(configure(CurrentState, response, user_value))
        /\ ev' = [op |-> "configure", dialog |-> response, user_value |-> user_value]
        /\ UNCHANGED <<storeVars, loadVars>>

\* RommService.login: configure when no host is known, then the base class's
\* login, which opens the login flow on login_url.
Login ==
    \E response \in Responses, user_value \in UserValues :
        LET ask == ~Truthy(host_url)
            st == IF ask THEN configure(CurrentState, response, user_value) ELSE CurrentState
        IN  /\ SetState(st)
            /\ ev' = [op |-> "login",
                      dialog |-> IF ask THEN response ELSE "not_run",
                      user_value |-> IF ask THEN user_value ELSE << >>,
                      flow_host |-> st.host_url,
                      flow_url |-> login_url(st.host_url)]
            /\ UNCHANGED <<storeVars, loadVars>>

(***************************************************************************)
(* Library load (lutris/services/romm.py, RommGame and RommService.load).  *)
(***************************************************************************)
MaxLib == 3

Ids == {PyInt(1), PyInt(2)}
Slugs == {PyStr(foo), PyStr(foo2)}
Names == {PyStr(Foo), PyStr(Bar)}

\* The objects of the API's answer: a JSON object is a function from the keys
\* it has to their values.  An object may lack one of the keys load reads.
ApiRecords ==
    [id : Ids, slug : Slugs, name : Names]
        \cup [slug : Slugs, name : Names]
        \cup [id : Ids, name : Names]
        \cup [id : Ids, slug : Slugs]

Libraries == UNION {[1..n -> ApiRecords] : n \in 0..MaxLib}

\* What the HTTP request may do: fail, or answer with a body that is no JSON,
\* with no content (Request.json is then {}), or with a JSON array.
Exchanges ==
    {[status |-> "http_error", body |-> PyNone]}
        \cup {[status |-> "ok", body |-> [t |-> "invalid", v |-> 0]]}
        \cup {[status |-> "ok", body |-> PyDict(<< >>)]}
        \cup {[status |-> "ok", body |-> PyList(l)] : l \in Libraries}

KeyOrder == <<"id", "slug", "name">>

\* json.dumps(romm_game): the object's text, its members in order.
json_dumps(game) ==
    LET ks == SelectSeq(KeyOrder, LAMBDA k : k \in DOMAIN game)
    IN  [t |-> "json_text", v |-> [i \in 1..Len(ks) |-> <<ks[i], game[ks[i]]>>]]

\* RommGame.new_from_romm: a missing key raises KeyError at its subscript.
new_from_romm(game) ==
    IF "id" \notin DOMAIN game THEN [raised |-> Exc("KeyError", "id"), ret |-> PyNone]
    ELSE IF "slug" \notin DOMAIN game THEN [raised |-> Exc("KeyError", "slug"), ret |-> PyNone]
    ELSE IF "name" \notin DOMAIN game THEN [raised |-> Exc("KeyError", "name"), ret |-> PyNone]
    ELSE [raised |-> NoExc,
          ret |-> [service |-> PyStr(romm), appid |-> game.id, slug |-> game.slug,
                   name |-> game.name, details |-> json_dumps(game)]]

\* make_api_request with no handler for HTTPError.
make_api_request_reraise(r) ==
    IF r.status = "http_error"
    THEN [raised |-> Exc("HTTPError", "request failed"), ret |-> PyNone, logged |-> FALSE]
    ELSE IF r.body.t = "invalid"
    THEN [raised |-> Exc("ValueError", "JSONDecodeError"), ret |-> PyNone, logged |-> FALSE]
    ELSE [raised |-> NoExc, ret |-> r.body, logged |-> FALSE]

\* RommService.make_api_request: HTTPError is caught and logged; request.json
\* decodes the body, and a body that is no JSON raises ValueError.
make_api_request(r) ==
    IF r.status = "http_error"
    THEN [raised |-> NoExc, ret |-> PyNone, logged |-> TRUE]
    ELSE IF r.body.t = "invalid"
    THEN [raised |-> Exc("ValueError", "JSONDecodeError"), ret |-> PyNone, logged |-> FALSE]
    ELSE [raised |-> NoExc, ret |-> r.body, logged |-> FALSE]

\* RommService.get_library: make_api_request(url) or [].
get_library(r) ==
    LET a == make_api_request(r)
    IN  IF a.raised # NoExc
        THEN [raised |-> a.raised, ret |-> PyNone]
        ELSE [raised |-> NoExc, ret |-> IF Truthy(a.ret) THEN a.ret ELSE PyList(<< >>)]

\* The loop body keeping the last record of a name instead of the first.
map_record_last_wins(acc, game) ==
    IF "name" \notin DOMAIN game
    THEN [raised |-> Exc("KeyError", "name"), romm_games |-> acc.romm_games, seen |-> acc.seen]
    ELSE LET g == new_from_romm(game)
             others == SelectSeq(acc.romm_games, LAMBDA x : x.name # game.name)
         IN  IF g.raised # NoExc
             THEN [raised |-> g.raised, romm_games |-> acc.romm_games, seen |-> acc.seen]
             ELSE [raised |-> NoExc, romm_games |-> Append(others, g.ret),
                   seen |-> acc.seen \cup {game.name}]

\* One pass of load's first loop over `game`.
map_record(acc, game) ==
    IF "name" \notin DOMAIN game
    THEN [raised |-> Exc("KeyError", "name"), romm_games |-> acc.romm_games, seen |-> acc.seen]
    ELSE IF game.name \in acc.seen
    THEN [raised |-> NoExc, romm_games |-> acc.romm_games, seen |-> acc.seen]
    ELSE LET g == new_from_romm(game)
         IN  IF g.raised # NoExc
             THEN [raised |-> g.raised, romm_games |-> acc.romm_games, seen |-> acc.seen]
             ELSE [raised |-> NoExc, romm_games |-> Append(acc.romm_games, g.ret),
                   seen |-> acc.seen \cup {game.name}]

NoResult == [raised |-> NoExc, cause |-> NoExc, ret |-> PyNone]
NoRequest == [status |-> "none", body |-> PyNone]
ReloginError == Exc("RuntimeError", "Failed to get Romm library. Try logging out and back-in.")

InitLoad ==
    /\ pc = "idle"
    /\ req = NoRequest
    /\ api = [raised |-> NoExc, ret |-> PyNone, logged |-> FALSE]
    /\ lib = [raised |-> NoExc, ret |-> PyNone]
    /\ library = << >>
    /\ idx = 1
    /\ romm_games = << >>
    /\ seen = {}
    /\ sidx = 1
    /\ saved = << >>
    /\ matched = FALSE
    /\ result = NoResult

\* load is called: library = self.get_library(), ValueError re-raised as
\* RuntimeError.
LoadStart ==
    /\ pc = "idle"
    /\ \E r \in Exchanges :
        LET l == get_library(r)
        IN  /\ req' = r
            /\ api' = make_api_request(r)
            /\ lib' = l
            /\ IF l.raised.type = "ValueError"
               THEN /\ pc' = "raised"
                    /\ result' = [raised |-> ReloginError, cause |-> l.raised, ret |-> PyNone]
                    /\ UNCHANGED library
               ELSE IF l.raised # NoExc
               THEN /\ pc' = "raised"
                    /\ result' = [raised |-> l.raised, cause |-> NoExc, ret |-> PyNone]
                    /\ UNCHANGED library
               ELSE /\ pc' = "map"
                    /\ library' = l.ret.v
                    /\ UNCHANGED result
    /\ UNCHANGED <<idx, romm_games, seen, sidx, saved, matched, storeVars, configVars>>

\* The loop body saving as it converts.
LoadMapSaving ==
    /\ pc = "map"
    /\ idx <= Len(library)
    /\ LET m == map_record([romm_games |-> romm_games, seen |-> seen], library[idx])
       IN  IF m.raised # NoExc
           THEN /\ pc' = "raised"
                /\ result' = [raised |-> m.raised, cause |-> NoExc, ret |-> PyNone]
                /\ UNCHANGED <<idx, romm_games, seen, saved>>
           ELSE /\ romm_games' = m.romm_games
                /\ seen' = m.seen
                /\ saved' = m.romm_games
                /\ idx' = idx + 1
                /\ UNCHANGED <<pc, result>>
    /\ UNCHANGED <<req, api, lib, library, sidx, matched, storeVars, configVars>>

\* The first loop's body, for library[idx].
LoadMap ==
    /\ pc = "map"
    /\ idx <= Len(library)
    /\ LET m == map_record([romm_games |-> romm_games, seen |-> seen], library[idx])
       IN  IF m.raised # NoExc
           THEN /\ pc' = "raised"
                /\ result' = [raised |-> m.raised, cause |-> NoExc, ret |-> PyNone]
                /\ UNCHANGED <<idx, romm_games, seen, saved>>
           ELSE /\ romm_games' = m.romm_games
                /\ seen' = m.seen
                /\ idx' = idx + 1
                /\ UNCHANGED <<pc, result, saved>>
    /\ UNCHANGED <<req, api, lib, library, sidx, matched, storeVars, configVars>>

\* The first loop is exhausted.
LoadMapEnd ==
    /\ pc = "map"
    /\ idx > Len(library)
    /\ pc' = "save"
    /\ UNCHANGED <<req, api, lib, library, idx, romm_games, seen, sidx, saved, matched, result,
                   storeVars, configVars>>

\* The second loop's body: game.save() for romm_games[sidx].
LoadSave ==
    /\ pc = "save"
    /\ sidx <= Len(romm_games)
    /\ saved' = Append(saved, romm_games[sidx])
    /\ sidx' = sidx + 1
    /\ UNCHANGED <<pc, req, api, lib, library, idx, romm_games, seen, matched, result,
                   storeVars, configVars>>

\* The second loop is exhausted: self.match_games(), return romm_games.
LoadReturn ==
    /\ pc = "save"
    /\ sidx > Len(romm_games)
    /\ matched' = TRUE
    /\ result' = [raised |-> NoExc, cause |-> NoExc, ret |-> PyList(romm_games)]
    /\ pc' = "done"
    /\ UNCHANGED <<req, api, lib, library, idx, romm_games, seen, sidx, saved,
                   storeVars, configVars>>

(***************************************************************************)
(* Specifications.                                                         *)
(***************************************************************************)
NextStore == db_insert \/ GetForService \/ GetGame
NextConfig == Construct \/ Configure \/ Login
NextLoad == LoadStart \/ LoadMap \/ LoadMapEnd \/ LoadSave \/ LoadReturn

Init == InitStore /\ InitConfig /\ InitLoad

SpecStore == Init /\ [][NextStore]_vars
SpecConfig == Init /\ [][NextConfig]_vars
SpecLoad == Init /\ [][NextLoad]_vars

(***************************************************************************)
(* Properties of the store.                                                *)
(***************************************************************************)
\* A service or value argument that is None or the empty string.
Absent(x) == x.t = "none" \/ (x.t = "str" /\ x.v = << >>)

\* Positions of the rows of tbl with this service and this value in `field`.
Matches(tbl, service, value, field) ==
    {i \in DOMAIN tbl : PyEq(tbl[i].service, service) /\ PyEq(tbl[i][field], value)}

Min(S) == CHOOSE x \in S : \A y \in S : x <= y

Count(seq, r) == Cardinality({i \in DOMAIN seq : seq[i] = r})

C3_Result(tbl, l) ==
    LET M == Matches(tbl, l.service, l.value, l.field)
    IN  /\ l.out.raised = NoExc
        /\ (M = {} => l.out.ret.t = "none")
        /\ (M # {} => l.out.ret.t = "row" /\ l.out.ret.v = tbl[Min(M)])
        /\ (l.out.warned <=> Cardinality(M) >= 2)

C3_SameCall(l1, l2) ==
    /\ l1.op = "get_game"
    /\ l2.op = "get_game"
    /\ PyEq(l1.service, l2.service)
    /\ PyEq(l1.value, l2.value)
    /\ l1.field = l2.field

C4_GetForService ==
    last.op = "get_for_service" =>
        IF Absent(last.service)
        THEN /\ last.out.raised.type = "ValueError"
             /\ last.out.queried = 0
        ELSE /\ last.out.raised = NoExc
             /\ last.out.ret.t = "list"
             /\ \A r \in Rows :
                    Count(last.out.ret.v, r)
                        = IF PyEq(r.service, last.service) THEN Count(table, r) ELSE 0

\* A table holding rows of two services, of which get_for_service returns one.
C4_Witness ==
    /\ last.op = "get_for_service"
    /\ PyEq(last.service, PyStr(romm))
    /\ Len(table) = 2
    /\ last.out.ret.t = "list"
    /\ Len(last.out.ret.v) = 1

\* C5: get_game raises an argument error exactly when service or value is
\* empty or absent, the service being checked first and no query being issued;
\* a non-empty service with a present value that identifies a stored row is
\* looked up.
C5_ArgumentErrors ==
    last.op = "get_game" =>
        LET o == last.out
            M == Matches(table, last.service, last.value, last.field)
        IN  /\ (o.raised.type = "ValueError" <=> Absent(last.service) \/ Absent(last.value))
            /\ (Absent(last.service) => o.raised.msg = "No service provided")
            /\ (o.raised # NoExc => o.queried = 0)
            /\ (~Absent(last.service) /\ ~Absent(last.value) /\ M # {}
                    => o.raised = NoExc /\ o.queried = 1 /\ o.ret.t = "row")

\* A row with appid 0 is stored for romm, and looking it up is rejected.
C5_Witness ==
    /\ last.op = "get_game"
    /\ PyEq(last.service, PyStr(romm))
    /\ PyEq(last.value, PyInt(0))
    /\ last.field = "appid"
    /\ Matches(table, last.service, last.value, last.field) # {}
    /\ last.out.raised = Exc("ValueError", "No value provided")

(***************************************************************************)
(* Properties of configuration and login.                                  *)
(***************************************************************************)
\* C6: after configure is accepted, the host in the config file and host_url
\* do not end with a slash, and redirect_uri is the stored host plus "/scan".
C6_NoTrailingSlash ==
    (ev.op = "configure" /\ ev.dialog = "OK") =>
        /\ host_url.t = "str"
        /\ ~endswith_slash(host_url.v)
        /\ config_file.t = "dict"
        /\ config_file.v.host = host_url
        /\ redirect_uri = PyStr(host_url.v \o scan)

\* The user typed a host ending in two slashes; one of them is stored.
C6_Witness ==
    /\ ev.op = "configure"
    /\ ev.dialog = "OK"
    /\ ev.user_value = <<"h", "/", "/">>
    /\ host_url = PyStr(<<"h", "/">>)
    /\ config_file = config_json(<<"h", "/">>)

\* C8: the login flow is started only with a known host_url, so that its
\* login_url can be formed.
C8_LoginNeedsHost ==
    ev.op = "login" => ev.flow_host.t = "str" /\ ev.flow_url.raised = NoExc

\* login on an unconfigured service, dialog cancelled: the flow starts anyway.
C8_Witness ==
    /\ ev.op = "login"
    /\ ev.dialog = "CANCEL"
    /\ ev.flow_host.t = "none"
    /\ ev.flow_url.raised.type = "TypeError"

\* C9: a configuration dialog dismissed with any result other than OK leaves
\* host_url, redirect_uri and the config file as they were.
C9_CancelChangesNothing ==
    [][(ev'.dialog \notin {"OK", "not_run"})
         => UNCHANGED <<host_url, redirect_uri, config_file>>]_vars

\* A configured service whose dialog was cancelled with another host typed in.
C9_Witness ==
    /\ ev.op = "configure"
    /\ ev.dialog = "CANCEL"
    /\ host_url.t = "str"
    /\ ev.user_value # host_url.v
    /\ config_file.t = "dict"
    /\ config_file.v.host = host_url

(***************************************************************************)
(* Properties of load.                                                     *)
(***************************************************************************)
Has(game, k) == k \in DOMAIN game

\* The first position of the library with this name.
FirstNamed(L, name) == Min({k \in DOMAIN L : Has(L[k], "name") /\ L[k].name = name})

\* Record i is one load converts (its name is not that of an earlier record)
\* and cannot: a key is missing.
Unmappable(L, i) ==
    \/ ~Has(L[i], "name")
    \/ /\ \A j \in 1..(i - 1) : Has(L[j], "name") => L[j].name # L[i].name
       /\ (~Has(L[i], "id") \/ ~Has(L[i], "slug"))

SomeUnmappable(L) == \E i \in DOMAIN L : Unmappable(L, i)

\* C1: the games load saves and returns hold one game per distinct name of the
\* library, built from the first record with that name, in library order.
C1_Dedup ==
    /\ pc = "done" =>
        LET R == result.ret.v
            L == library
        IN  /\ saved = R
            /\ \A i, j \in DOMAIN R : i # j => R[i].name # R[j].name
            /\ \A k \in DOMAIN L : Has(L[k], "name")
            /\ {R[i].name : i \in DOMAIN R} = {L[k].name : k \in DOMAIN L}
            /\ \A i \in DOMAIN R :
                   LET first == L[FirstNamed(L, R[i].name)]
                   IN  /\ Has(first, "id") /\ Has(first, "slug")
                       /\ R[i].service = PyStr(romm)
                       /\ R[i].appid = first.id
                       /\ R[i].slug = first.slug
                       /\ R[i].details = json_dumps(first)
            /\ \A i, j \in DOMAIN R :
                   i < j => FirstNamed(L, R[i].name) < FirstNamed(L, R[j].name)
    /\ (pc = "raised" /\ result.raised.type = "KeyError") =>
           \E k \in DOMAIN library : \E key \in {"id", "slug", "name"} : ~Has(library[k], key)

\* Three records, the third repeating the first one's name under another id:
\* two games are saved and returned, the first with the first record's id.
C1_Witness ==
    /\ pc = "done"
    /\ Len(library) = 3
    /\ library[1].name = library[3].name
    /\ library[1].name # library[2].name
    /\ Has(library[3], "id")
    /\ library[1].id # library[3].id
    /\ Len(result.ret.v) = 2
    /\ Len(saved) = 2
    /\ result.ret.v[1].appid = library[1].id
    /\ result.ret.v[2].name = library[2].name

\* C2: when the library request fails with an HTTP error, load ends by raising
\* the RuntimeError that asks to log out and back in, saves no game and does
\* not call match_games.
C2_FetchErrorRaises ==
    (req.status = "http_error" /\ pc \in {"done", "raised"}) =>
        /\ pc = "raised"
        /\ result.raised = ReloginError
        /\ saved = << >>
        /\ ~matched

\* The request failed and load returned an empty list after match_games.
C2_Witness ==
    /\ req.status = "http_error"
    /\ pc = "done"
    /\ matched
    /\ result.raised = NoExc
    /\ result.ret = PyList(<< >>)

\* C7: an HTTP error does not leave make_api_request: it is logged and None is
\* returned; get_library returns the empty list whenever make_api_request
\* returns None or another empty result.
C7_HttpErrorSwallowed ==
    pc # "idle" =>
        /\ req.status = "http_error" =>
               /\ api.raised = NoExc
               /\ api.ret.t = "none"
               /\ api.logged
               /\ lib.raised = NoExc
        /\ (api.raised = NoExc /\ ~Truthy(api.ret)) =>
               /\ lib.raised = NoExc
               /\ lib.ret.t = "list"
               /\ lib.ret.v = << >>

\* The request failed: None from make_api_request, [] from get_library.
C7_Witness ==
    /\ req.status = "http_error"
    /\ api.logged
    /\ api.ret.t = "none"
    /\ lib.ret.t = "list"
    /\ lib.ret.v = << >>

\* C10: every record is converted before the first save, so a library with a
\* record load converts and cannot makes load fail with nothing saved;
\* otherwise every game is saved before match_games is called, and load
\* returns the list it saved.
C10_AllOrNothing ==
    /\ saved # << >> => pc \in {"save", "done"} /\ idx = Len(library) + 1
    /\ SomeUnmappable(library) =>
           /\ saved = << >>
           /\ pc \in {"map", "raised"}
           /\ pc = "map" => \E i \in idx..Len(library) : Unmappable(library, i)
    /\ pc = "raised" => saved = << >> /\ ~matched
    /\ (pc = "raised" /\ result.raised.type = "KeyError") => SomeUnmappable(library)
    /\ matched => saved = romm_games
    /\ pc = "done" => matched /\ result.raised = NoExc /\ result.ret = PyList(saved)

\* A game was converted, a later record lacks a key: load failed, nothing saved.
C10_Witness ==
    /\ pc = "raised"
    /\ result.raised.type = "KeyError"
    /\ romm_games # << >>
    /\ saved = << >>

====
